---- MODULE Spec2Model ----
(***************************************************************************)
(* A model of src/app.py (YouTube Tools: caption fetch, translation, video *)
(* download).  Text is modelled as a sequence of one-character strings so  *)
(* that strip(), join(), substring tests and regular-expression searches   *)
(* are computed the way the code computes them.                            *)
(*                                                                         *)
(* The specifications of the module:                                       *)
(*   Spec         one call of fetch_english_transcript_ytdlp, step by step *)
(*   SpecParse    parse_subtitle_json applied to bounded event lists       *)
(*   SpecVideoId  extract_video_id applied to bounded URL strings          *)
(*   SpecTime     validate_time_format and normalize_time_format           *)
(*   SpecTranslate  one call of translate_to_japanese, reply by reply      *)
(*   SpecCache    calls of the cached fetch over time                      *)
(*   SpecDownload one click of a download button, single or bulk           *)
(*   SpecSession  script runs of the translator tab over one session       *)
(*   SpecFile     single downloads and file-button clicks of one session   *)
(***************************************************************************)
EXTENDS Naturals, Sequences, FiniteSets, TLC

VARIABLES
    \* ---- fetch_english_transcript_ytdlp (src/app.py:111-234)
    pc,               \* position inside the call
    video_id,         \* the argument
    meta,             \* what ydl.extract_info did: "pending" or an outcome
    info,             \* [has, automatic_captions, subtitles] from extract_info
    sel,              \* [found, subtitle_url, found_lang, ext, kind]
    subtitle_content, \* the payload read from subtitle_url
    decoder,          \* which branch of lines 196-216 decoded the payload
    exc,              \* the exception class caught by lines 223-234, or "none"
    result,           \* the returned tuple [text, error, lang]
    nExtractInfo,     \* calls of ydl.extract_info made
    nUrlOpen,         \* calls of urllib.request.urlopen made
    \* ---- parse_subtitle_json (src/app.py:94-108)
    ppc, subtitle_data, parsed,
    \* ---- extract_video_id (src/app.py:86-91)
    epc, url_parts, url, vid_out,
    \* ---- validate_time_format, normalize_time_format (src/app.py:264-283)
    tpc, time_str, time_valid, time_norm,
    \* ---- translate_to_japanese (src/app.py:237-257)
    trpc,         \* position inside the call
    tr_text,      \* the argument text, as words and runs of whitespace
    source_lang,  \* the argument source_lang
    tr_todo,      \* the chunks the loop of line 249 has not reached yet
    tr_requests,  \* the messages sent by client.messages.create, in order
    tr_replies,   \* resp.content[0].text of each reply, in order
    jp_parts,     \* the list of line 248
    tr_out,       \* the returned string
    \* ---- @st.cache_data(ttl=3600) around the fetch (src/app.py:111)
    cache,        \* per video id: [has, result, age]
    cached_call,  \* the last call: [made, video_id, result, ran_body]
    \* ---- the download tab (src/app.py:354-446, 641-789, 844-1016)
    dpc,             \* "form", "bulk_loop", "bulk_run", "single_run", "done", "raised"
    download_mode,   \* "single" or "bulk" (line 634)
    youtube_url_dl,  \* the URL field of the single path (line 846)
    bulk_urls,       \* the validated URL list (lines 654-668)
    bulk_time_mode,  \* "all", "global" or "each" (lines 683-687)
    time_inputs,     \* the [start, end] fields: start_time_dl / end_time_dl,
                     \* global_start_time / global_end_time, or one pair
                     \* start_time_{i} / end_time_{i} per entry of the list
    bulk_i,          \* the entry the loop of line 769 is at
    running,         \* the entries whose yt-dlp subprocess is running
    temp_dirs,       \* the entries whose tempfile.mkdtemp() directory exists
    started,         \* the commands given to subprocess.run, in order
    dl_results,      \* what each finished download returned, in order
    \* ---- the translator tab and its session state (src/app.py:478-626)
    input_method,    \* st.session_state["input_method"]: "url" or "manual"
    eng_text,        \* st.session_state["eng_text"]
    jp_text,         \* st.session_state["jp_text"]
    jp_ta,           \* st.session_state["jp_ta"]
    st_video_id,     \* st.session_state["video_id"]
    has_jp_edit,     \* "jp_edit" in st.session_state
    jp_edit,         \* st.session_state["jp_edit"]
    last_run,        \* what the last script run did
    \* ---- the files of the single download (src/app.py:295-338, 976-1032)
    disk,                  \* the paths that exist in the working directory
    moved,                 \* the paths line 987 has moved a download to
    downloaded_file_path,  \* st.session_state.downloaded_file_path
    downloaded_file_data,  \* st.session_state.downloaded_file_data
    downloaded_file_name,  \* st.session_state.downloaded_file_name
    file_run               \* what the last script run of the file model did

fetchVars == <<pc, video_id, meta, info, sel, subtitle_content, decoder, exc,
               result, nExtractInfo, nUrlOpen>>
parseVars == <<ppc, subtitle_data, parsed>>
idVars    == <<epc, url_parts, url, vid_out>>
timeVars  == <<tpc, time_str, time_valid, time_norm>>
\* the variables of the areas modelled after extract_video_id
translateVars == <<trpc, tr_text, source_lang, tr_todo, tr_requests,
                   tr_replies, jp_parts, tr_out>>
cacheVars == <<cache, cached_call>>
downloadVars == <<dpc, download_mode, youtube_url_dl, bulk_urls, bulk_time_mode,
                  time_inputs, bulk_i, running, temp_dirs, started, dl_results>>
sessionVars == <<input_method, eng_text, jp_text, jp_ta, st_video_id,
                 has_jp_edit, jp_edit, last_run>>
fileVars == <<disk, moved, downloaded_file_path, downloaded_file_data,
              downloaded_file_name, file_run>>
restVars  == <<timeVars, translateVars, cacheVars, downloadVars, sessionVars,
               fileVars>>
vars      == <<fetchVars, parseVars, idVars, restVars>>

(***************************************************************************)
(* Strings                                                                 *)
(***************************************************************************)
\* The characters str.strip() removes that the inputs below can contain.
Whitespace == {" ", "\n"}

RECURSIVE LStrip(_)
LStrip(s) == IF s = <<>> THEN s
             ELSE IF Head(s) \in Whitespace THEN LStrip(Tail(s)) ELSE s

RECURSIVE RStrip(_)
RStrip(s) == IF s = <<>> THEN s
             ELSE IF s[Len(s)] \in Whitespace
                  THEN RStrip(SubSeq(s, 1, Len(s) - 1)) ELSE s

\* str.strip()
Strip(s) == RStrip(LStrip(s))

\* sep.join(parts)
RECURSIVE Join(_, _)
Join(sep, parts) ==
    IF parts = <<>> THEN <<>>
    ELSE IF Len(parts) = 1 THEN parts[1]
    ELSE parts[1] \o sep \o Join(sep, Tail(parts))

\* pat occurs in s at position i (1-based)
MatchAt(s, i, pat) ==
    /\ i >= 1
    /\ i + Len(pat) - 1 <= Len(s)
    /\ \A k \in 1..Len(pat) : s[i + k - 1] = pat[k]

\* `pat in s'
Contains(s, pat) == \E i \in 1..(Len(s) + 1) : MatchAt(s, i, pat)

\* s.endswith(pat)
EndsWith(s, pat) == Len(pat) <= Len(s) /\ MatchAt(s, Len(s) - Len(pat) + 1, pat)

(***************************************************************************)
(* The areas a specification does not exercise stay idle                   *)
(***************************************************************************)
TimeIdle == tpc = "idle" /\ time_str = <<>> /\ time_valid = FALSE /\ time_norm = <<>>

TranslateIdle ==
    /\ trpc = "idle" /\ tr_text = <<>> /\ source_lang = "en" /\ tr_todo = <<>>
    /\ tr_requests = <<>> /\ tr_replies = <<>> /\ jp_parts = <<>> /\ tr_out = <<>>

NoEntry == [has |-> FALSE, result |-> [text |-> <<>>, error |-> "", lang |-> ""],
            age |-> 0]

NoCall == [made |-> FALSE, video_id |-> <<>>,
           result |-> [text |-> <<>>, error |-> "", lang |-> ""],
           ran_body |-> FALSE]

CacheIdle == cache = <<>> /\ cached_call = NoCall

DownloadIdle ==
    /\ dpc = "idle" /\ download_mode = "single" /\ youtube_url_dl = ""
    /\ bulk_urls = <<>> /\ bulk_time_mode = "all" /\ time_inputs = <<>>
    /\ bulk_i = 0 /\ running = {} /\ temp_dirs = {} /\ started = <<>>
    /\ dl_results = <<>>

\* no script run yet
NoRun == [kind |-> "none", outcome |-> "none", url |-> <<>>, fetch_error |-> "",
          fetch_calls |-> 0, translate_calls |-> 0]

\* the values of lines 478-492
SessionIdle ==
    /\ input_method = "url" /\ eng_text = <<>> /\ jp_text = <<>> /\ jp_ta = <<>>
    /\ st_video_id = <<>> /\ has_jp_edit = FALSE /\ jp_edit = <<>>
    /\ last_run = NoRun

\* None, the value lines 484-486 give the three keys of the downloaded file
None == [none |-> TRUE]

\* lines 484-486, an empty working directory and no script run yet
FileIdle ==
    /\ disk = {} /\ moved = {}
    /\ downloaded_file_path = None
    /\ downloaded_file_data = None
    /\ downloaded_file_name = None
    /\ file_run = "none"

RestIdle ==
    TimeIdle /\ TranslateIdle /\ CacheIdle /\ DownloadIdle /\ SessionIdle /\ FileIdle

(***************************************************************************)
(* parse_subtitle_json, src/app.py:94-108                                  *)
(*   an entry is [hasSegs, segs, hasText, text]: the flags model the       *)
(*   presence of the 'segs' and 'text' keys; a seg is [hasUtf8, utf8].     *)
(***************************************************************************)
\* seg.get('utf8') is truthy
SegTruthy(seg) == seg.hasUtf8 /\ seg.utf8 # <<>>

\* [seg.get('utf8', '') for seg in entry['segs'] if seg.get('utf8')]
RECURSIVE SegTexts(_)
SegTexts(segs) ==
    IF segs = <<>> THEN <<>>
    ELSE IF SegTruthy(Head(segs)) THEN <<Head(segs).utf8>> \o SegTexts(Tail(segs))
    ELSE SegTexts(Tail(segs))

\* line 100: ' '.join(...)
SegmentText(entry) == Join(<<" ">>, SegTexts(entry.segs))

\* EntryParts without the two .strip() calls of lines 101-102 and 105-106
EntryParts_NoStrip(entry) ==
    IF entry.hasSegs
    THEN IF SegmentText(entry) # <<>> THEN <<SegmentText(entry)>> ELSE <<>>
    ELSE IF entry.hasText
         THEN IF entry.text # <<>> THEN <<entry.text>> ELSE <<>>
         ELSE <<>>

\* what one entry appends to text_parts (lines 98-106): <<>> or one string
EntryParts(entry) ==
    IF entry.hasSegs
    THEN IF Strip(SegmentText(entry)) # <<>>
         THEN <<Strip(SegmentText(entry))>> ELSE <<>>
    ELSE IF entry.hasText
         THEN IF Strip(entry.text) # <<>> THEN <<Strip(entry.text)>> ELSE <<>>
         ELSE <<>>

RECURSIVE TextParts(_)
TextParts(data) ==
    IF data = <<>> THEN <<>>
    ELSE EntryParts(Head(data)) \o TextParts(Tail(data))

parse_subtitle_json(data) == Join(<<" ">>, TextParts(data))

(***************************************************************************)
(* Inputs of parse_subtitle_json: event lists built from at most MaxItems  *)
(* items.  An item opens a new event or appends a segment to the last one. *)
(***************************************************************************)
MaxItems == 3

\* text values a 'utf8' or 'text' field can hold (json3 payloads carry
\* words with a leading space and events that are a lone newline)
Strs == { <<>>, <<"a">>, <<"b">>, <<" ", "a">>, <<"\n">> }

Items ==
    {[k |-> "segs", has |-> TRUE, s |-> <<>>]}                  \* {'segs': []}
    \cup {[k |-> "seg", has |-> TRUE, s |-> x] : x \in Strs}    \* {'utf8': x}
    \cup {[k |-> "seg", has |-> FALSE, s |-> <<>>]}             \* seg without 'utf8'
    \cup {[k |-> "text", has |-> TRUE, s |-> x] : x \in Strs}   \* {'text': x}
    \cup {[k |-> "bare", has |-> TRUE, s |-> <<>>]}             \* {} (timing only)
    \cup {[k |-> "both", has |-> TRUE, s |-> <<"b">>]}          \* {'segs': [], 'text': 'b'}

NewEntry(it) ==
    [hasSegs |-> it.k \in {"segs", "seg", "both"},
     segs    |-> IF it.k = "seg" THEN <<[hasUtf8 |-> it.has, utf8 |-> it.s]>> ELSE <<>>,
     hasText |-> it.k \in {"text", "both"},
     text    |-> IF it.k \in {"text", "both"} THEN it.s ELSE <<>>]

AddItem(acc, it) ==
    IF it.k = "seg" /\ acc # <<>> /\ acc[Len(acc)].hasSegs
    THEN [acc EXCEPT ![Len(acc)].segs = Append(@, [hasUtf8 |-> it.has, utf8 |-> it.s])]
    ELSE Append(acc, NewEntry(it))

RECURSIVE BuildEvents(_, _)
BuildEvents(items, acc) ==
    IF items = <<>> THEN acc
    ELSE BuildEvents(Tail(items), AddItem(acc, Head(items)))

EventsOf(items) == BuildEvents(items, <<>>)

EventInputs ==
    {EventsOf(items) : items \in UNION {[1..n -> Items] : n \in 0..MaxItems}}

ParseIdle == ppc = "idle" /\ subtitle_data = <<>> /\ parsed = <<>>

IdIdle == epc = "idle" /\ url_parts = <<>> /\ url = <<>> /\ vid_out = <<>>

(***************************************************************************)
(* fetch_english_transcript_ytdlp, src/app.py:111-234: the upstream        *)
(***************************************************************************)
\* Video identifiers: 11 characters of [A-Za-z0-9_-].  The second and third
\* carry the letters "vtt" and "json3", which are legal identifier characters.
VideoIds ==
    { <<"d","Q","w","4","w","9","W","g","X","c","Q">>,
      <<"a","b","c","v","t","t","d","e","f","g","h">>,
      <<"x","_","j","s","o","n","3","_","x","y","z">> }

\* Format identifiers ('ext') the upstream lists; "srt" is not accepted by
\* the code's format test.
Exts == {"json3", "vtt", "srv3", "srt"}

ExtChars(ext) ==
    CASE ext = "json3" -> <<"j","s","o","n","3">>
      [] ext = "vtt"   -> <<"v","t","t">>
      [] ext = "srv3"  -> <<"s","r","v","3">>
      [] ext = "srt"   -> <<"s","r","t">>

\* Language codes the upstream lists: two English variants, two languages
\* of the secondary list and a language of neither list.
Langs == {"en", "en-US", "ja", "es", "ru"}

\* The retrieval URL the upstream reports for a track: the timedtext
\* endpoint with the video identifier and the format as query parameters
\* (".../api/timedtext?v=<id>&fmt=<ext>").
TrackUrl(vid, ext) ==
    <<"/","t","t","?","v","=">> \o vid \o <<"&","f","m","t","=">> \o ExtChars(ext)

\* The upstream's track listing: at most MaxTracks tracks, in upstream order.
MaxTracks == 2

ListingEntries == [kind : {"auto", "manual"}, lang : Langs, ext : Exts]

Listings == UNION {[1..n -> ListingEntries] : n \in 0..MaxTracks}

\* the tracks of one kind and language, in upstream order
RECURSIVE TracksOf(_, _, _, _)
TracksOf(listing, kind, lang, vid) ==
    IF listing = <<>> THEN <<>>
    ELSE LET e == Head(listing)
             rest == TracksOf(Tail(listing), kind, lang, vid)
         IN IF e.kind = kind /\ e.lang = lang
            THEN <<[ext |-> e.ext, url |-> TrackUrl(vid, e.ext)]>> \o rest
            ELSE rest

\* info['automatic_captions'] / info['subtitles']: language -> list of tracks
CaptionMap(listing, kind, vid) ==
    [l \in {listing[i].lang : i \in {j \in 1..Len(listing) : listing[j].kind = kind}}
        |-> TracksOf(listing, kind, l, vid)]

NoInfo == [has |-> FALSE, automatic_captions |-> <<>>, subtitles |-> <<>>]

InfoOf(vid, listing) ==
    [has |-> TRUE,
     automatic_captions |-> CaptionMap(listing, "auto", vid),
     subtitles |-> CaptionMap(listing, "manual", vid)]

\* What ydl.extract_info does (line 122): returns the info dict, returns
\* nothing, raises DownloadError (three messages) or raises something else.
MetaOutcomes == {"ok", "none", "unavailable", "age", "dlerror", "exception"}

\* str(e) of the DownloadError, as the phrases it is made of
MetaMessage(o) ==
    CASE o = "unavailable" -> <<"ERROR:", "Video unavailable">>
      [] o = "age"         -> <<"ERROR:", "Sign in to confirm your age">>
      [] OTHER             -> <<"ERROR:", "HTTP Error 429">>

\* `phrase in error_msg'
InMsg(phrase, msg) == \E i \in 1..Len(msg) : msg[i] = phrase

(***************************************************************************)
(* Track selection, src/app.py:133-177                                     *)
(***************************************************************************)
english_codes == <<"en", "en-US", "en-GB", "en-CA", "en-AU", "en-NZ", "en-IN", "a.en">>

priority_langs == <<"ja", "es", "fr", "de", "it", "pt", "ko", "zh", "zh-CN", "zh-TW">>

\* the list of lines 143, 156 and 171
AcceptedExts == <<"json3", "srv3", "srv2", "srv1", "vtt", "ttml">>

InSeq(x, s) == \E i \in 1..Len(s) : s[i] = x

NoSel == [found |-> FALSE, subtitle_url |-> <<>>, found_lang |-> "", ext |-> "", kind |-> ""]

\* lines 142-147: the index of the first track of the list, in upstream
\* order, whose ext is in the accepted list; 0 when there is none
FirstAccepted(tracks) ==
    LET ok == {k \in 1..Len(tracks) : InSeq(tracks[k].ext, AcceptedExts)}
    IN IF ok = {} THEN 0 ELSE CHOOSE k \in ok : \A m \in ok : k <= m

\* lines 139-149 (and 153-162, 168-177): for lang in codes: if lang in
\* captions: first accepted track of captions[lang]; break when found
RECURSIVE ScanLangs(_, _, _)
ScanLangs(codes, captions, kind) ==
    IF codes = <<>> THEN NoSel
    ELSE LET lang == Head(codes)
         IN IF lang \in DOMAIN captions /\ FirstAccepted(captions[lang]) # 0
            THEN LET t == captions[lang][FirstAccepted(captions[lang])]
                 IN [found |-> TRUE, subtitle_url |-> t.url, found_lang |-> lang,
                     ext |-> t.ext, kind |-> kind]
            ELSE ScanLangs(Tail(codes), captions, kind)

\* SelectTrack with the first two passes exchanged (manual English first)
SelectTrack_ManualFirst(automatic_captions, subtitles) ==
    LET s1 == ScanLangs(english_codes, subtitles, "manual")
        s2 == ScanLangs(english_codes, automatic_captions, "auto")
        s3 == ScanLangs(priority_langs, automatic_captions, "auto")
    IN IF s1.found THEN s1
       ELSE IF s2.found THEN s2
       ELSE IF DOMAIN automatic_captions # {} THEN s3
       ELSE NoSel

\* lines 133-177: 1. automatic English, 2. manual English, 3. automatic,
\* other languages
SelectTrack(automatic_captions, subtitles) ==
    LET s1 == ScanLangs(english_codes, automatic_captions, "auto")
        s2 == ScanLangs(english_codes, subtitles, "manual")
        s3 == ScanLangs(priority_langs, automatic_captions, "auto")
    IN IF s1.found THEN s1
       ELSE IF s2.found THEN s2
       ELSE IF DOMAIN automatic_captions # {} THEN s3
       ELSE NoSel

(***************************************************************************)
(* Payloads and decoders, src/app.py:190-216                               *)
(*   A payload is [wire, raw, json]: raw is the text read from the URL;    *)
(*   json is what json.loads makes of it, which exists when wire = "json". *)
(***************************************************************************)
NoJson == [shape |-> "none", events |-> <<>>, key |-> <<>>]

NoContent == [wire |-> "none", raw |-> <<>>, json |-> NoJson]

\* JSON values: {"events": [...]}, a top-level list of events, an object
\* with one key that is not 'events', a number
JsonValues ==
    {[shape |-> "events", events |-> e, key |-> <<>>] :
        e \in {<<>>,
               EventsOf(<<[k |-> "seg", has |-> TRUE, s |-> <<"a">>],
                          [k |-> "seg", has |-> TRUE, s |-> <<" ", "a">>]>>),
               EventsOf(<<[k |-> "seg", has |-> TRUE, s |-> <<"\n">>]>>)}}
    \cup {[shape |-> "list", events |-> EventsOf(<<[k |-> "text", has |-> TRUE, s |-> <<"b">>]>>),
           key |-> <<>>]}
    \cup {[shape |-> "dict", events |-> <<>>, key |-> k] :
            k \in {<<"e","r","r">>, <<"t","e","x","t">>}}
    \cup {[shape |-> "number", events |-> <<>>, key |-> <<>>]}

JsonPayloads == {[wire |-> "json", raw |-> <<"{", "}">>, json |-> j] : j \in JsonValues}

\* "WEBVTT\n\n1\n0-->1\n a\n" and "WEBVTT\n"
VttPayloads ==
    {[wire |-> "vtt", raw |-> r, json |-> NoJson] :
        r \in { <<"W","E","B","V","T","T","\n","\n","1","\n",
                  "0","-","-",">","1","\n"," ","a","\n">>,
                <<"W","E","B","V","T","T","\n">> }}

\* "<p>a</p><p>b</p>" and "<t></t>"
XmlPayloads ==
    {[wire |-> "xml", raw |-> r, json |-> NoJson] :
        r \in { <<"<","p",">","a","<","/","p",">","<","p",">","b","<","/","p",">">>,
                <<"<","t",">","<","/","t",">">> }}

\* The upstream serves the format its fmt parameter names, which is the
\* track's declared ext.
PayloadsFor(ext) ==
    CASE ext = "json3" -> JsonPayloads
      [] ext = "vtt"   -> VttPayloads
      [] OTHER         -> XmlPayloads

\* subtitle_content.split('\n')
RECURSIVE SplitLines(_, _)
SplitLines(s, cur) ==
    IF s = <<>> THEN <<cur>>
    ELSE IF Head(s) = "\n" THEN <<cur>> \o SplitLines(Tail(s), <<>>)
    ELSE SplitLines(Tail(s), Append(cur, Head(s)))

Digits == {"0", "1", "2", "3", "4", "5", "6", "7", "8", "9"}

\* str.isdigit()
IsDigit(s) == s # <<>> /\ \A i \in 1..Len(s) : s[i] \in Digits

\* the filter of lines 206-208
VttKeep(line) ==
    /\ Strip(line) # <<>>
    /\ ~MatchAt(line, 1, <<"W","E","B","V","T","T">>)
    /\ ~Contains(line, <<"-","-",">">>)
    /\ ~IsDigit(Strip(line))

RECURSIVE VttParts(_)
VttParts(lines) ==
    IF lines = <<>> THEN <<>>
    ELSE IF VttKeep(Head(lines)) THEN <<Strip(Head(lines))>> \o VttParts(Tail(lines))
    ELSE VttParts(Tail(lines))

\* lines 204-209
DecodeVtt(content) == Join(<<" ">>, VttParts(SplitLines(content.raw, <<>>)))

\* the end of the longest run of non-'<' characters starting at i, plus one
RECURSIVE RunEnd(_, _)
RunEnd(s, i) == IF i > Len(s) \/ s[i] = "<" THEN i ELSE RunEnd(s, i + 1)

\* re.findall(r'>([^<]+)<', s), scanning from position i
RECURSIVE FindAllInterTag(_, _)
FindAllInterTag(s, i) ==
    IF i > Len(s) THEN <<>>
    ELSE IF s[i] = ">"
         THEN LET j == RunEnd(s, i + 1)
              IN IF j > i + 1 /\ j <= Len(s)
                 THEN <<SubSeq(s, i + 1, j - 1)>> \o FindAllInterTag(s, j + 1)
                 ELSE FindAllInterTag(s, i + 1)
         ELSE FindAllInterTag(s, i + 1)

\* lines 213-216
DecodeXml(content) == Join(<<" ">>, FindAllInterTag(content.raw, 1))

\* A decoder's outcome: the text, or the class of the exception it raises.
Decoded(text) == [raises |-> "none", text |-> text]
Raises(class) == [raises |-> class, text |-> <<>>]

\* lines 197-201: json.loads raises JSONDecodeError on text that is not
\* JSON; `'events' in' raises TypeError on a number; parse_subtitle_json of
\* an object iterates its keys, and entry['segs'] / entry['text'] on a key
\* (a string) raises TypeError.
DecodeJson(content) ==
    IF content.wire # "json" THEN Raises("JSONDecodeError")
    ELSE CASE content.json.shape = "events" -> Decoded(parse_subtitle_json(content.json.events))
           [] content.json.shape = "list"   -> Decoded(parse_subtitle_json(content.json.events))
           [] content.json.shape = "number" -> Raises("TypeError")
           [] content.json.shape = "dict"   ->
                IF \/ Contains(content.json.key, <<"s","e","g","s">>)
                   \/ Contains(content.json.key, <<"t","e","x","t">>)
                THEN Raises("TypeError") ELSE Decoded(<<>>)

\* lines 196, 202, 210: the branch is chosen by the text of the URL
DecoderBranch(subtitle_url) ==
    IF EndsWith(subtitle_url, <<".","j","s","o","n","3">>)
       \/ Contains(subtitle_url, <<"j","s","o","n","3">>) THEN "json3"
    ELSE IF EndsWith(subtitle_url, <<".","v","t","t">>)
            \/ Contains(subtitle_url, <<"v","t","t">>) THEN "vtt"
    ELSE "xml"

DecodeWith(branch, content) ==
    CASE branch = "json3" -> DecodeJson(content)
      [] branch = "vtt"   -> Decoded(DecodeVtt(content))
      [] OTHER            -> Decoded(DecodeXml(content))

(***************************************************************************)
(* Results and the exception handlers, src/app.py:125, 179-188, 218-234   *)
(***************************************************************************)
Ret(text, error, lang) == [text |-> text, error |-> error, lang |-> lang]

NoResult == Ret(<<>>, "", "")

\* line 125
NoInfoResult == Ret(<<>>, "video info could not be retrieved", "")

\* lines 179-188: the message always starts with a fixed sentence
NoSubtitleResult == Ret(<<>>, "no subtitles found", "")

\* line 219
ParseFailedResult == Ret(<<>>, "subtitle data could not be parsed", "")

\* Success that reports no language
Success_NoLang(text, found_lang) == Ret(text, "", "")

\* line 221: found_lang or "en"
Success(text, found_lang) ==
    Ret(text, "", IF found_lang # "" THEN found_lang ELSE "en")

\* AfterDecode without the test of line 218
AfterDecode_NoEmptyTest(text, found_lang) == Success(text, found_lang)

\* lines 218-221
AfterDecode(text, found_lang) ==
    IF text = <<>> THEN ParseFailedResult ELSE Success(text, found_lang)

\* DownloadErrorResult without the branch of lines 225-226
DownloadErrorResult_NoUnavailable(msg) ==
    IF InMsg("Sign in to confirm your age", msg)
    THEN Ret(<<>>, "age-restricted video", "")
    ELSE Ret(<<>>, "download error", "")

\* lines 223-230
DownloadErrorResult(msg) ==
    IF InMsg("Video unavailable", msg) THEN Ret(<<>>, "video unavailable", "")
    ELSE IF InMsg("Sign in to confirm your age", msg)
         THEN Ret(<<>>, "age-restricted video", "")
    ELSE Ret(<<>>, "download error", "")

\* An exception raised inside the try block: where control goes.
Returned(r) == [escaped |-> FALSE, result |-> r]
Escaped == [escaped |-> TRUE, result |-> NoResult]

\* Handle without the handler of lines 233-234
Handle_NoCatchAll(class, msg) ==
    CASE class = "DownloadError"   -> Returned(DownloadErrorResult(msg))
      [] class = "JSONDecodeError" -> Returned(Ret(<<>>, "subtitle data is malformed", ""))
      [] OTHER                     -> Escaped

\* lines 223-234: every class the body raises derives from Exception
Handle(class, msg) ==
    CASE class = "DownloadError"   -> Returned(DownloadErrorResult(msg))
      [] class = "JSONDecodeError" -> Returned(Ret(<<>>, "subtitle data is malformed", ""))
      [] OTHER                     -> Returned(Ret(<<>>, "unexpected error", ""))

(***************************************************************************)
(* One call of fetch_english_transcript_ytdlp, in the order of its lines   *)
(***************************************************************************)
FetchIdle ==
    /\ pc = "idle" /\ video_id = <<>> /\ meta = "pending" /\ info = NoInfo
    /\ sel = NoSel /\ subtitle_content = NoContent /\ decoder = "none"
    /\ exc = "none" /\ result = NoResult /\ nExtractInfo = 0 /\ nUrlOpen = 0

FetchInit ==
    /\ pc = "call" /\ video_id \in VideoIds /\ meta = "pending" /\ info = NoInfo
    /\ sel = NoSel /\ subtitle_content = NoContent /\ decoder = "none"
    /\ exc = "none" /\ result = NoResult /\ nExtractInfo = 0 /\ nUrlOpen = 0

\* an exception of class `class' leaves the try block (lines 223-234)
RaiseInside(class, msg) ==
    /\ exc' = class
    /\ result' = Handle(class, msg).result
    /\ pc' = IF Handle(class, msg).escaped THEN "raised" ELSE "done"

\* a return statement inside the try block
Return(r) == result' = r /\ pc' = "done" /\ exc' = exc

\* line 122 returns the info dict
ExtractInfoOk ==
    /\ pc = "call"
    /\ nExtractInfo' = nExtractInfo + 1
    /\ meta' = "ok"
    /\ \E listing \in Listings : info' = InfoOf(video_id, listing)
    /\ pc' = "select"
    /\ UNCHANGED <<video_id, sel, subtitle_content, decoder, exc, result, nUrlOpen>>
    /\ UNCHANGED <<parseVars, idVars, restVars>>

\* line 122 returns nothing: lines 124-125
ExtractInfoNone ==
    /\ pc = "call"
    /\ nExtractInfo' = nExtractInfo + 1
    /\ meta' = "none"
    /\ Return(NoInfoResult)
    /\ UNCHANGED <<video_id, info, sel, subtitle_content, decoder, nUrlOpen>>
    /\ UNCHANGED <<parseVars, idVars, restVars>>

\* line 122 raises: DownloadError (lines 223-230) or another class (233-234)
ExtractInfoRaises ==
    /\ pc = "call"
    /\ nExtractInfo' = nExtractInfo + 1
    /\ \E o \in MetaOutcomes \ {"ok", "none"} :
          /\ meta' = o
          /\ RaiseInside(IF o = "exception" THEN "URLError" ELSE "DownloadError",
                         MetaMessage(o))
    /\ UNCHANGED <<video_id, info, sel, subtitle_content, decoder, nUrlOpen>>
    /\ UNCHANGED <<parseVars, idVars, restVars>>

\* lines 128-188: select a track, or return the no-subtitles error
SelectStep ==
    /\ pc = "select"
    /\ sel' = SelectTrack(info.automatic_captions, info.subtitles)
    /\ IF sel'.found
       THEN pc' = "urlopen" /\ UNCHANGED <<result, exc>>
       ELSE Return(NoSubtitleResult)
    /\ UNCHANGED <<video_id, meta, info, subtitle_content, decoder, nExtractInfo, nUrlOpen>>
    /\ UNCHANGED <<parseVars, idVars, restVars>>

\* lines 192-193 read the payload.  The captions maps are not read after
\* line 188; the model drops them here.
UrlOpenOk ==
    /\ pc = "urlopen"
    /\ nUrlOpen' = nUrlOpen + 1
    /\ \E c \in PayloadsFor(sel.ext) : subtitle_content' = c
    /\ info' = NoInfo
    /\ pc' = "decode"
    /\ UNCHANGED <<video_id, meta, sel, decoder, exc, result, nExtractInfo>>
    /\ UNCHANGED <<parseVars, idVars, restVars>>

\* lines 192-193 raise (URLError, HTTPError, UnicodeDecodeError)
UrlOpenRaises ==
    /\ pc = "urlopen"
    /\ nUrlOpen' = nUrlOpen + 1
    /\ info' = NoInfo
    /\ RaiseInside("URLError", <<"urlopen error">>)
    /\ UNCHANGED <<video_id, meta, sel, subtitle_content, decoder, nExtractInfo>>
    /\ UNCHANGED <<parseVars, idVars, restVars>>

\* lines 195-221
DecodeStep ==
    /\ pc = "decode"
    /\ decoder' = DecoderBranch(sel.subtitle_url)
    /\ LET d == DecodeWith(decoder', subtitle_content)
       IN IF d.raises # "none"
          THEN RaiseInside(d.raises, <<"decode error">>)
          ELSE Return(AfterDecode(d.text, sel.found_lang))
    /\ UNCHANGED <<video_id, meta, info, sel, subtitle_content, nExtractInfo, nUrlOpen>>
    /\ UNCHANGED <<parseVars, idVars, restVars>>

Next ==
    \/ ExtractInfoOk
    \/ ExtractInfoNone
    \/ ExtractInfoRaises
    \/ SelectStep
    \/ UrlOpenOk
    \/ UrlOpenRaises
    \/ DecodeStep

Init == FetchInit /\ ParseIdle /\ IdIdle /\ RestIdle

Spec == Init /\ [][Next]_vars

(***************************************************************************)
(* SpecParse: parse_subtitle_json on every input of EventInputs            *)
(***************************************************************************)
ParseInit == ppc = "input" /\ subtitle_data \in EventInputs /\ parsed = <<>>

ParseCall ==
    /\ ppc = "input"
    /\ parsed' = parse_subtitle_json(subtitle_data)
    /\ ppc' = "done"
    /\ UNCHANGED <<subtitle_data, fetchVars, idVars, restVars>>

InitParse == FetchIdle /\ IdIdle /\ RestIdle /\ ParseInit

NextParse == ParseCall

SpecParse == InitParse /\ [][NextParse]_vars

(***************************************************************************)
(* extract_video_id, src/app.py:86-91                                      *)
(***************************************************************************)
Lower == {"a","b","c","d","e","f","g","h","i","j","k","l","m",
          "n","o","p","q","r","s","t","u","v","w","x","y","z"}

Upper == {"A","B","C","D","E","F","G","H","I","J","K","L","M",
          "N","O","P","Q","R","S","T","U","V","W","X","Y","Z"}

\* the character class [A-Za-z0-9_-]
IdChars == Lower \cup Upper \cup Digits \cup {"_", "-"}

\* the {11} of the four patterns
IdLen == 11

\* The literal text each pattern requires before the identifier, in the
\* order of the tuple of line 88: (?<=v=), youtu\.be/, embed/, shorts/
Patterns ==
    << <<"v","=">>,
       <<"y","o","u","t","u",".","b","e","/">>,
       <<"e","m","b","e","d","/">>,
       <<"s","h","o","r","t","s","/">> >>

\* the pattern matches with its identifier starting at position i
IdAt(u, lit, i) ==
    /\ MatchAt(u, i - Len(lit), lit)
    /\ i + IdLen - 1 <= Len(u)
    /\ \A k \in i..(i + IdLen - 1) : u[k] \in IdChars

\* re.search(pattern, url): the leftmost match; m.group(1), or m.group(0)
\* for the look-behind pattern, is the identifier; <<>> when there is none
Search(u, lit) ==
    LET hits == {i \in 1..Len(u) : IdAt(u, lit, i)}
    IN IF hits = {} THEN <<>>
       ELSE LET i == CHOOSE h \in hits : \A g \in hits : h <= g
            IN SubSeq(u, i, i + IdLen - 1)

\* for pattern in patterns: if (m := re.search(pattern, url)): return ...
RECURSIVE FirstHit(_, _)
FirstHit(u, patterns) ==
    IF patterns = <<>> THEN <<>>
    ELSE IF Search(u, Head(patterns)) # <<>> THEN Search(u, Head(patterns))
    ELSE FirstHit(u, Tail(patterns))

\* extract_video_id with the patterns tried in the opposite order
extract_video_id_Reversed(u) ==
    FirstHit(u, <<Patterns[4], Patterns[3], Patterns[2], Patterns[1]>>)

extract_video_id(u) == FirstHit(u, Patterns)

(***************************************************************************)
(* Inputs of extract_video_id: "https://" followed by at most MaxParts     *)
(* parts joined by "&"; a part is the text of a URL shape followed by an   *)
(* identifier.                                                             *)
(***************************************************************************)
MaxParts == 2

\* the four supported shapes and one that is not supported
Shapes == {"watch", "short", "embed", "shorts", "playlist"}

ShapeText(shape) ==
    CASE shape = "watch"  ->
            <<"y","o","u","t","u","b","e",".","c","o","m","/",
              "w","a","t","c","h","?","v","=">>
      [] shape = "short"  -> <<"y","o","u","t","u",".","b","e","/">>
      [] shape = "embed"  ->
            <<"y","o","u","t","u","b","e",".","c","o","m","/","e","m","b","e","d","/">>
      [] shape = "shorts" ->
            <<"y","o","u","t","u","b","e",".","c","o","m","/","s","h","o","r","t","s","/">>
      [] shape = "playlist" ->
            <<"y","o","u","t","u","b","e",".","c","o","m","/",
              "p","l","a","y","l","i","s","t","?","l","i","s","t","=">>

\* identifiers of 11 characters, and one of 10
IdInputs == VideoIds \cup { <<"s","h","o","r","t","_","1","0","c","h">> }

UrlParts == [shape : Shapes, id : IdInputs]

RECURSIVE PartTexts(_)
PartTexts(parts) ==
    IF parts = <<>> THEN <<>>
    ELSE <<ShapeText(Head(parts).shape) \o Head(parts).id>> \o PartTexts(Tail(parts))

UrlOf(parts) == <<"h","t","t","p","s",":","/","/">> \o Join(<<"&">>, PartTexts(parts))

IdInit ==
    /\ epc = "input"
    /\ url_parts \in UNION {[1..n -> UrlParts] : n \in 0..MaxParts}
    /\ url = UrlOf(url_parts)
    /\ vid_out = <<>>

ExtractCall ==
    /\ epc = "input"
    /\ vid_out' = extract_video_id(url)
    /\ epc' = "done"
    /\ UNCHANGED <<url_parts, url, fetchVars, parseVars, restVars>>

InitVideoId == FetchIdle /\ ParseIdle /\ RestIdle /\ IdInit

NextVideoId == ExtractCall

SpecVideoId == InitVideoId /\ [][NextVideoId]_vars

(***************************************************************************)
(* validate_time_format and normalize_time_format, src/app.py:264-283      *)
(***************************************************************************)
\* \d{n}: the n characters of s after position i are digits
DigitsAt(s, i, n) ==
    /\ i + n <= Len(s)
    /\ \A k \in 1..n : s[i + k] \in Digits

\* s[i + 1] is c
CharAt(s, i, c) == i + 1 <= Len(s) /\ s[i + 1] = c

\* a $ that matches anywhere
AtEnd_Anywhere(s, i) == i <= Len(s)

\* $ after i characters: the end of the string, or just before a newline
\* that ends the string
AtEnd(s, i) == i = Len(s) \/ (i = Len(s) - 1 /\ s[Len(s)] = "\n")

\* re.match of r'^\d{1,2}:\d{2}(:\d{2})?$' (line 267)
ColonMatch(s) ==
    \E n \in 1..2 :
        /\ DigitsAt(s, 0, n)
        /\ CharAt(s, n, ":")
        /\ DigitsAt(s, n + 1, 2)
        /\ \/ AtEnd(s, n + 3)
           \/ /\ CharAt(s, n + 3, ":")
              /\ DigitsAt(s, n + 4, 2)
              /\ AtEnd(s, n + 6)

\* re.match of r'^\d{4}$' (lines 269, 275)
FourDigitMatch(s) == DigitsAt(s, 0, 4) /\ AtEnd(s, 4)

\* re.match of r'^\d{6}$' (lines 269, 278)
SixDigitMatch(s) == DigitsAt(s, 0, 6) /\ AtEnd(s, 6)

\* lines 264-271
validate_time_format(s) ==
    ColonMatch(s) \/ FourDigitMatch(s) \/ SixDigitMatch(s)

\* s[a:b] and s[a:] of Python (0-based, end exclusive, clipped)
Slice(s, a, b) == SubSeq(s, a + 1, IF b < Len(s) THEN b ELSE Len(s))
SliceFrom(s, a) == SubSeq(s, a + 1, Len(s))

\* lines 273-283
normalize_time_format(s) ==
    IF FourDigitMatch(s)
    THEN Slice(s, 0, 2) \o <<":">> \o SliceFrom(s, 2)
    ELSE IF SixDigitMatch(s)
    THEN Slice(s, 0, 2) \o <<":">> \o Slice(s, 2, 4) \o <<":">> \o SliceFrom(s, 4)
    ELSE s

\* The inputs: every string of at most MaxTimeLen characters over two
\* digits and the colon, and some strings with other characters.  The
\* values come from st.text_input (lines 694-696, 721-723, 862, 873), which
\* is a one-line field: they hold no newline.
MaxTimeLen == 8

TimeChars == {"0", "1", ":"}

OddTimeStrings ==
    { <<" ">>, <<"a">>, <<"a", "b", ":", "c", "d">>,
      <<"0", "1", "3", "0", " ">>, <<" ", "0", "1", "3", "0">>,
      <<"1", ":", "2", ":", "3", ":", "4">>,
      <<"9", "5", "7", "2">>, <<"2", "3", "5", "9", "4", "8">>,
      <<"7", ":", "0", "5">>, <<"1", "2", "-", "3", "4">>,
      <<"1", "2", ".", "3", "4">>, <<"0", "1", "3", "0", "x">> }

TimeStrings ==
    UNION {[1..n -> TimeChars] : n \in 0..MaxTimeLen} \cup OddTimeStrings

TimeInit ==
    /\ tpc = "input" /\ time_str \in TimeStrings
    /\ time_valid = FALSE /\ time_norm = <<>>

\* one call of each function on the same string
TimeFormatCall ==
    /\ tpc = "input"
    /\ time_valid' = validate_time_format(time_str)
    /\ time_norm' = normalize_time_format(time_str)
    /\ tpc' = "done"
    /\ UNCHANGED <<time_str, fileVars, fetchVars, parseVars, idVars, translateVars, cacheVars,
                   downloadVars, sessionVars>>

IdleButTime ==
    FileIdle /\ FetchIdle /\ ParseIdle /\ IdIdle /\ TranslateIdle /\ CacheIdle /\ DownloadIdle
    /\ SessionIdle

InitTime == IdleButTime /\ TimeInit

NextTime == TimeFormatCall

SpecTime == InitTime /\ [][NextTime]_vars

(***************************************************************************)
(* translate_to_japanese, src/app.py:237-257                               *)
(*   The text is a sequence of tokens [ws, n]: a word of n characters or   *)
(*   a run of n whitespace characters, the units textwrap works on.  A     *)
(*   chunk is a sequence of pieces [tok, a, n, ws]: n characters of token  *)
(*   number tok from offset a.                                             *)
(***************************************************************************)
\* the width given to textwrap.wrap
Width == 6000

\* the tokens of the text as textwrap's reversed chunk list starts
TokenPieces(text) ==
    [i \in 1..Len(text) |-> [tok |-> i, a |-> 0, n |-> text[i].n, ws |-> text[i].ws]]

\* chunk.strip() == ''
Blank(piece) == piece.ws \/ piece.n = 0

RECURSIVE LineLen(_)
LineLen(line) == IF line = <<>> THEN 0 ELSE Head(line).n + LineLen(Tail(line))

\* the inner loop of TextWrapper._wrap_chunks: how many of the leading
\* chunks fit on the current line
RECURSIVE Fits(_, _)
Fits(chunks, cur_len) ==
    IF chunks = <<>> THEN 0
    ELSE IF cur_len + Head(chunks).n <= Width
         THEN 1 + Fits(Tail(chunks), cur_len + Head(chunks).n)
         ELSE 0

\* one pass of the outer loop: [line, rest]
WrapLine(chunks0, first) ==
    LET chunks == IF chunks0 # <<>> /\ Blank(Head(chunks0)) /\ ~first
                  THEN Tail(chunks0) ELSE chunks0
        k      == Fits(chunks, 0)
        fitted == SubSeq(chunks, 1, k)
        after  == SubSeq(chunks, k + 1, Len(chunks))
        left   == Width - LineLen(fitted)
        \* TextWrapper._handle_long_word with break_long_words
        long   == after # <<>> /\ Head(after).n > Width
        cur    == IF long
                  THEN Append(fitted, [Head(after) EXCEPT !.n = left])
                  ELSE fitted
        rest   == IF long
                  THEN <<[Head(after) EXCEPT !.a = @ + left, !.n = @ - left]>>
                       \o Tail(after)
                  ELSE after
        line   == IF cur # <<>> /\ Blank(cur[Len(cur)])
                  THEN SubSeq(cur, 1, Len(cur) - 1) ELSE cur
    IN  [line |-> line, rest |-> rest]

RECURSIVE WrapChunks(_, _)
WrapChunks(chunks, lines) ==
    IF chunks = <<>> THEN lines
    ELSE LET r == WrapLine(chunks, lines = <<>>)
         IN  WrapChunks(r.rest, IF r.line # <<>> THEN Append(lines, r.line)
                                ELSE lines)

\* textwrap.wrap(text, 6000), line 249
Wrap(text) == WrapChunks(TokenPieces(text), <<>>)

\* source_lang.startswith('en'), line 243
StartsWithEn(lang) == lang \in {"en", "en-US", "en-GB"}

\* lines 243-246: which of the two prefixes, and the code it names
PromptPrefix(lang) ==
    IF StartsWithEn(lang) THEN [english |-> TRUE, code |-> ""]
    ELSE [english |-> FALSE, code |-> lang]

\* line 254: messages=[{"role": "user", "content": prompt_prefix + chunk}]
Request(lang, chunk) == [prefix |-> PromptPrefix(lang), chunk |-> chunk]

\* line 257 with a one-newline separator
JoinParts_OneNewline(parts) == Join(<<"\n">>, parts)

\* line 257
JoinParts(parts) == Join(<<"\n", "\n">>, parts)

\* The inputs: texts of at most MaxTokens tokens, words and whitespace
\* runs alternating
MaxTokens == 3

WordLens == {1, 2999, 3000, 6000, 7000, 13000}

Words == {[ws |-> FALSE, n |-> n] : n \in WordLens}

Spaces == {[ws |-> TRUE, n |-> 1]}

Texts ==
    UNION { {t \in [1..k -> Words \cup Spaces] :
                \A i \in 1..(k - 1) : t[i].ws # t[i + 1].ws} : k \in 0..MaxTokens }

TranslateLangs == {"en", "ja"}

\* what resp.content[0].text can be
Replies == { <<"J">>, <<" ", "K", "\n">>, <<"\n">> }

TranslateInit ==
    /\ trpc = "call" /\ tr_text \in Texts /\ source_lang \in TranslateLangs
    /\ tr_todo = <<>> /\ tr_requests = <<>> /\ tr_replies = <<>>
    /\ jp_parts = <<>> /\ tr_out = <<>>

\* lines 239-240
TranslateEmpty ==
    /\ trpc = "call" /\ tr_text = <<>>
    /\ tr_out' = <<>>
    /\ trpc' = "done"
    /\ UNCHANGED <<tr_text, source_lang, tr_todo, tr_requests, tr_replies, jp_parts>>
    /\ UNCHANGED <<fileVars, fetchVars, parseVars, idVars, timeVars, cacheVars, downloadVars,
                   sessionVars>>

\* lines 243-249: the prefix is chosen and the text wrapped
TranslateWrap ==
    /\ trpc = "call" /\ tr_text # <<>>
    /\ tr_todo' = Wrap(tr_text)
    /\ trpc' = "loop"
    /\ UNCHANGED <<tr_text, source_lang, tr_requests, tr_replies, jp_parts, tr_out>>
    /\ UNCHANGED <<fileVars, fetchVars, parseVars, idVars, timeVars, cacheVars, downloadVars,
                   sessionVars>>

\* lines 250-256: one pass of the loop, the call returns a reply
CreateOk ==
    /\ trpc = "loop" /\ tr_todo # <<>>
    /\ \E reply \in Replies :
          /\ tr_replies' = Append(tr_replies, reply)
          /\ jp_parts' = Append(jp_parts, Strip(reply))
    /\ tr_requests' = Append(tr_requests, Request(source_lang, Head(tr_todo)))
    /\ tr_todo' = Tail(tr_todo)
    /\ UNCHANGED <<trpc, tr_text, source_lang, tr_out>>
    /\ UNCHANGED <<fileVars, fetchVars, parseVars, idVars, timeVars, cacheVars, downloadVars,
                   sessionVars>>

\* lines 250-255: the call raises; nothing in the function catches it
CreateRaises ==
    /\ trpc = "loop" /\ tr_todo # <<>>
    /\ tr_requests' = Append(tr_requests, Request(source_lang, Head(tr_todo)))
    /\ trpc' = "raised"
    /\ UNCHANGED <<tr_text, source_lang, tr_todo, tr_replies, jp_parts, tr_out>>
    /\ UNCHANGED <<fileVars, fetchVars, parseVars, idVars, timeVars, cacheVars, downloadVars,
                   sessionVars>>

\* line 257
TranslateReturn ==
    /\ trpc = "loop" /\ tr_todo = <<>>
    /\ tr_out' = JoinParts(jp_parts)
    /\ trpc' = "done"
    /\ UNCHANGED <<tr_text, source_lang, tr_todo, tr_requests, tr_replies, jp_parts>>
    /\ UNCHANGED <<fileVars, fetchVars, parseVars, idVars, timeVars, cacheVars, downloadVars,
                   sessionVars>>

IdleButTranslate ==
    FileIdle /\ FetchIdle /\ ParseIdle /\ IdIdle /\ TimeIdle /\ CacheIdle /\ DownloadIdle
    /\ SessionIdle

InitTranslate == IdleButTranslate /\ TranslateInit

NextTranslate ==
    \/ TranslateEmpty
    \/ TranslateWrap
    \/ CreateOk
    \/ CreateRaises
    \/ TranslateReturn

SpecTranslate == InitTranslate /\ [][NextTranslate]_vars

(***************************************************************************)
(* The cache of fetch_english_transcript_ytdlp, src/app.py:111             *)
(*   @st.cache_data(ttl=3600) stores what the function returns under its   *)
(*   argument and serves it, without running the body, until the entry is  *)
(*   ttl seconds old.                                                      *)
(***************************************************************************)
\* ttl=3600
TTL == 3600

\* what the body returns (lines 125, 188, 219, 221, 223-234)
BodyResults ==
    { Success(<<"h", "i">>, "en"),
      NoSubtitleResult,
      DownloadErrorResult(MetaMessage("dlerror")),
      Handle("URLError", <<>>).result }

\* the seconds that pass between two calls
Delays == {TTL \div 2, TTL}

Fresh(entry) == entry.has /\ entry.age < TTL

CacheInit ==
    /\ cache = [v \in VideoIds |-> NoEntry]
    /\ cached_call = NoCall

\* a call whose argument has a fresh entry: the body does not run
CachedCallHit ==
    \E v \in VideoIds :
        /\ Fresh(cache[v])
        /\ cached_call' = [made |-> TRUE, video_id |-> v,
                           result |-> cache[v].result, ran_body |-> FALSE]
        /\ UNCHANGED cache
        /\ UNCHANGED <<fileVars, fetchVars, parseVars, idVars, timeVars, translateVars,
                       downloadVars, sessionVars>>

\* a call whose argument has no fresh entry: the body runs and what it
\* returns is stored
CachedCallMiss ==
    \E v \in VideoIds, r \in BodyResults :
        /\ ~Fresh(cache[v])
        /\ cache' = [cache EXCEPT ![v] = [has |-> TRUE, result |-> r, age |-> 0]]
        /\ cached_call' = [made |-> TRUE, video_id |-> v,
                           result |-> r, ran_body |-> TRUE]
        /\ UNCHANGED <<fileVars, fetchVars, parseVars, idVars, timeVars, translateVars,
                       downloadVars, sessionVars>>

\* time passes; an entry that reaches the ttl is dropped
TimePasses ==
    \E d \in Delays :
        /\ cache' = [v \in VideoIds |->
                        IF cache[v].has /\ cache[v].age + d < TTL
                        THEN [cache[v] EXCEPT !.age = @ + d]
                        ELSE NoEntry]
        /\ cached_call' = NoCall
        /\ UNCHANGED <<fileVars, fetchVars, parseVars, idVars, timeVars, translateVars,
                       downloadVars, sessionVars>>

IdleButCache ==
    FileIdle /\ FetchIdle /\ ParseIdle /\ IdIdle /\ TimeIdle /\ TranslateIdle /\ DownloadIdle
    /\ SessionIdle

InitCache == IdleButCache /\ CacheInit

NextCache ==
    \/ CachedCallHit
    \/ CachedCallMiss
    \/ TimePasses

SpecCache == InitCache /\ [][NextCache]_vars

(***************************************************************************)
(* The download tab, src/app.py:354-446 (download_single_video_bulk),      *)
(* 641-789 (bulk form and loop), 844-1016 (single form and handler)        *)
(***************************************************************************)
\* the URLs validate_youtube_url_downloader (lines 285-293) accepts, among
\* the inputs below
ValidUrls == {"https://youtu.be/aaaaaaaaaaa", "https://youtu.be/bbbbbbbbbbb"}

validate_youtube_url_downloader(u) == u \in ValidUrls

\* what the URL field of the single path can hold
UrlInputs == ValidUrls \cup {"", "ftp://example.com/a"}

\* what a pair of time fields can hold
EntryPairs ==
    { [start |-> <<>>, end |-> <<>>],
      [start |-> <<"0", "0", "3", "0">>, end |-> <<"0", "2", ":", "0", "0">>],
      [start |-> <<"1", ":", "0", "0">>, end |-> <<"0", "1", "3", "0", "0", "0">>],
      [start |-> <<"0", "0", "3", "0">>, end |-> <<>>],
      [start |-> <<"1", ":", "2", ":", "3", ":", "4">>, end |-> <<"0", "2", ":", "0", "0">>],
      [start |-> <<" ">>, end |-> <<" ">>] }

\* a Python string is truthy
Truthy(s) == s # <<>>

\* global_time_valid (lines 699-705) and time_valid (lines 727-733)
TimeValid(p) ==
    /\ ~(Truthy(p.start) /\ ~validate_time_format(p.start))
    /\ ~(Truthy(p.end) /\ ~validate_time_format(p.end))

\* the tests of lines 707 and 735
PairAccepted(p) == TimeValid(p) /\ Truthy(p.start) /\ Truthy(p.end)

NoSetting == [has |-> FALSE, start |-> <<>>, end |-> <<>>]

\* a dict value that keeps the strings as typed
SettingOf_AsTyped(p) == [has |-> TRUE, start |-> p.start, end |-> p.end]

\* the dict value of lines 709-712 and 736-739
SettingOf(p) ==
    [has |-> TRUE, start |-> normalize_time_format(p.start),
     end |-> normalize_time_format(p.end)]

\* bulk_time_settings = {} (line 689): no URL has a value
EmptySettings == [u \in ValidUrls |-> NoSetting]

\* lines 707-712: the same value under every URL of the list
GlobalSettings(urls, p) ==
    [u \in ValidUrls |->
        IF PairAccepted(p) /\ (\E i \in 1..Len(urls) : urls[i] = u)
        THEN SettingOf(p) ELSE NoSetting]

\* lines 717-739: entry by entry, bulk_time_settings[url] = {...}
RECURSIVE EachSettings(_, _, _, _)
EachSettings(urls, inputs, i, d) ==
    IF i > Len(urls) THEN d
    ELSE EachSettings(urls, inputs, i + 1,
                      IF PairAccepted(inputs[i])
                      THEN [d EXCEPT ![urls[i]] = SettingOf(inputs[i])]
                      ELSE d)

\* bulk_time_settings when the button is reached (lines 689-742)
bulk_time_settings ==
    IF bulk_time_mode = "global"
    THEN GlobalSettings(bulk_urls, time_inputs[1])
    ELSE IF bulk_time_mode = "each" /\ bulk_urls # <<>>
    THEN EachSettings(bulk_urls, time_inputs, 1, EmptySettings)
    ELSE EmptySettings

NoTrim == [has |-> FALSE, value |-> <<>>]

\* f"*{start}-{end}" with "--download-sections" and
\* "--force-keyframes-at-cuts" (lines 387-391, 932-936)
Trim(start, end) == [has |-> TRUE, value |-> <<"*">> \o start \o <<"-">> \o end]

\* lines 386-391: the flags of one bulk command
BulkTrim(time_settings) ==
    IF time_settings.has THEN Trim(time_settings.start, time_settings.end)
    ELSE NoTrim

\* ---- the single path
start_time_dl == time_inputs[1].start
end_time_dl   == time_inputs[1].end

\* lines 849-854
url_valid_dl ==
    ~(youtube_url_dl # "" /\ ~validate_youtube_url_downloader(youtube_url_dl))

\* lines 863-869
start_time_valid_dl == ~(Truthy(start_time_dl) /\ ~validate_time_format(start_time_dl))

\* lines 874-880
end_time_valid_dl == ~(Truthy(end_time_dl) /\ ~validate_time_format(end_time_dl))

\* lines 894-896
time_input_valid_dl ==
    ~ \/ (Truthy(Strip(start_time_dl)) /\ ~Truthy(Strip(end_time_dl)))
      \/ (~Truthy(Strip(start_time_dl)) /\ Truthy(Strip(end_time_dl)))

\* line 898
all_valid_dl ==
    /\ url_valid_dl /\ start_time_valid_dl /\ end_time_valid_dl
    /\ time_input_valid_dl /\ youtube_url_dl # ""

\* lines 928-936
SingleTrim ==
    IF Truthy(Strip(start_time_dl)) /\ Truthy(Strip(end_time_dl))
    THEN Trim(normalize_time_format(start_time_dl),
              normalize_time_format(end_time_dl))
    ELSE NoTrim

\* a command handed to subprocess.run for entry i
Command(i, u, trim) == [entry |-> i, url |-> u, trim |-> trim]

\* what a finished download reports
Result(i, ok) == [entry |-> i, success |-> ok]

\* a loop that leaves out the entry after each one
LoopNext_SkipOne(i) == i + 2

\* the for statement of line 769 goes to the next entry
LoopNext(i) == i + 1

\* ---- the inputs
MaxUrls == 2

UrlLists == UNION {[1..n -> ValidUrls] : n \in 0..MaxUrls}

DownloadInit ==
    /\ dpc = "form"
    /\ \/ /\ download_mode = "single"
          /\ youtube_url_dl \in UrlInputs
          /\ bulk_urls = <<>> /\ bulk_time_mode = "all"
          /\ time_inputs \in {<<p>> : p \in EntryPairs}
       \/ /\ download_mode = "bulk"
          /\ youtube_url_dl = ""
          /\ bulk_urls \in UrlLists
          /\ \/ bulk_time_mode = "all" /\ time_inputs = <<>>
             \/ bulk_time_mode = "global" /\ time_inputs \in {<<p>> : p \in EntryPairs}
             \/ bulk_time_mode = "each"
                /\ time_inputs \in [1..Len(bulk_urls) -> EntryPairs]
    /\ bulk_i = 0 /\ running = {} /\ temp_dirs = {} /\ started = <<>>
    /\ dl_results = <<>>

\* ---- the bulk path
\* lines 747-763: the button, cleanup_bulk_files(), the placeholders
BulkClick ==
    /\ dpc = "form" /\ download_mode = "bulk" /\ bulk_urls # <<>>
    /\ dpc' = "bulk_loop"
    /\ bulk_i' = 1
    /\ dl_results' = <<>>
    /\ UNCHANGED <<download_mode, youtube_url_dl, bulk_urls, bulk_time_mode,
                   time_inputs, running, temp_dirs, started>>
    /\ UNCHANGED <<fileVars, fetchVars, parseVars, idVars, timeVars, translateVars, cacheVars,
                   sessionVars>>

\* lines 769-776 and 356-403: the command is built, the directory made and
\* subprocess.run starts yt-dlp and waits for it
BulkStart ==
    /\ dpc = "bulk_loop" /\ bulk_i <= Len(bulk_urls)
    /\ temp_dirs' = temp_dirs \cup {bulk_i}
    /\ running' = running \cup {bulk_i}
    /\ started' = Append(started,
                         Command(bulk_i, bulk_urls[bulk_i],
                                 BulkTrim(bulk_time_settings[bulk_urls[bulk_i]])))
    /\ dpc' = "bulk_run"
    /\ UNCHANGED <<download_mode, youtube_url_dl, bulk_urls, bulk_time_mode,
                   time_inputs, bulk_i, dl_results>>
    /\ UNCHANGED <<fileVars, fetchVars, parseVars, idVars, timeVars, translateVars, cacheVars,
                   sessionVars>>

\* line 403 raises FileNotFoundError (no yt-dlp executable): lines 442-446
BulkMissingExe ==
    /\ dpc = "bulk_loop" /\ bulk_i <= Len(bulk_urls)
    /\ temp_dirs' = temp_dirs \cup {bulk_i}
    /\ dl_results' = Append(dl_results, Result(bulk_i, FALSE))
    /\ bulk_i' = LoopNext(bulk_i)
    /\ UNCHANGED <<dpc, download_mode, youtube_url_dl, bulk_urls, bulk_time_mode,
                   time_inputs, running, started>>
    /\ UNCHANGED <<fileVars, fetchVars, parseVars, idVars, timeVars, translateVars, cacheVars,
                   sessionVars>>

\* yt-dlp has exited and download_single_video_bulk returns to the loop,
\* which records the result (lines 784-789)
BulkReturn(ok, removed) ==
    /\ dpc = "bulk_run"
    /\ running' = running \ {bulk_i}
    /\ temp_dirs' = IF removed THEN temp_dirs \ {bulk_i} ELSE temp_dirs
    /\ dl_results' = Append(dl_results, Result(bulk_i, ok))
    /\ bulk_i' = LoopNext(bulk_i)
    /\ dpc' = "bulk_loop"
    /\ UNCHANGED <<download_mode, youtube_url_dl, bulk_urls, bulk_time_mode,
                   time_inputs, started>>
    /\ UNCHANGED <<fileVars, fetchVars, parseVars, idVars, timeVars, translateVars, cacheVars,
                   sessionVars>>

\* lines 406-429: exit status 0 and an .mp4 in the directory
BulkExitFile == BulkReturn(TRUE, TRUE)

\* lines 430-435: exit status 0, no .mp4
BulkExitNoFile == BulkReturn(FALSE, TRUE)

\* lines 437-441: CalledProcessError
BulkExitNonZero == BulkReturn(FALSE, FALSE)

\* lines 411-415 raise (shutil.move or the read fails): lines 442-446
BulkMoveRaises == BulkReturn(FALSE, FALSE)

\* the loop of line 769 is over
BulkFinish ==
    /\ dpc = "bulk_loop" /\ bulk_i > Len(bulk_urls)
    /\ dpc' = "done"
    /\ UNCHANGED <<download_mode, youtube_url_dl, bulk_urls, bulk_time_mode,
                   time_inputs, bulk_i, running, temp_dirs, started, dl_results>>
    /\ UNCHANGED <<fileVars, fetchVars, parseVars, idVars, timeVars, translateVars, cacheVars,
                   sessionVars>>

\* ---- the single path
\* lines 956-970: the button, mkdtemp, subprocess.run starts yt-dlp
SingleStart ==
    /\ dpc = "form" /\ download_mode = "single" /\ all_valid_dl
    /\ temp_dirs' = temp_dirs \cup {1}
    /\ running' = running \cup {1}
    /\ started' = Append(started, Command(1, youtube_url_dl, SingleTrim))
    /\ dpc' = "single_run"
    /\ UNCHANGED <<download_mode, youtube_url_dl, bulk_urls, bulk_time_mode,
                   time_inputs, bulk_i, dl_results>>
    /\ UNCHANGED <<fileVars, fetchVars, parseVars, idVars, timeVars, translateVars, cacheVars,
                   sessionVars>>

\* line 970 raises FileNotFoundError: lines 1012-1016 remove the directory
SingleMissingExe ==
    /\ dpc = "form" /\ download_mode = "single" /\ all_valid_dl
    /\ dl_results' = Append(dl_results, Result(1, FALSE))
    /\ dpc' = "done"
    /\ UNCHANGED <<download_mode, youtube_url_dl, bulk_urls, bulk_time_mode,
                   time_inputs, bulk_i, running, temp_dirs, started>>
    /\ UNCHANGED <<fileVars, fetchVars, parseVars, idVars, timeVars, translateVars, cacheVars,
                   sessionVars>>

\* yt-dlp has exited and the handler ends
SingleEnd(ok, removed, next) ==
    /\ dpc = "single_run"
    /\ running' = running \ {1}
    /\ temp_dirs' = IF removed THEN temp_dirs \ {1} ELSE temp_dirs
    /\ dl_results' = Append(dl_results, Result(1, ok))
    /\ dpc' = next
    /\ UNCHANGED <<download_mode, youtube_url_dl, bulk_urls, bulk_time_mode,
                   time_inputs, bulk_i, started>>
    /\ UNCHANGED <<fileVars, fetchVars, parseVars, idVars, timeVars, translateVars, cacheVars,
                   sessionVars>>

\* lines 971-999: exit status 0 and an .mp4 in the directory
SingleExitFile == SingleEnd(TRUE, TRUE, "done")

\* lines 1000-1003: exit status 0, no .mp4
SingleExitNoFile == SingleEnd(FALSE, TRUE, "done")

\* lines 1005-1011: CalledProcessError
SingleExitNonZero == SingleEnd(FALSE, TRUE, "done")

\* lines 987-991 raise an exception that is neither CalledProcessError nor
\* FileNotFoundError (PermissionError, a full disk): no handler, it leaves
\* the script
SingleMoveRaises == SingleEnd(FALSE, FALSE, "raised")

IdleButDownload ==
    FileIdle /\ FetchIdle /\ ParseIdle /\ IdIdle /\ TimeIdle /\ TranslateIdle /\ CacheIdle /\ SessionIdle

InitDownload == IdleButDownload /\ DownloadInit

NextDownload ==
    \/ BulkClick
    \/ BulkStart
    \/ BulkMissingExe
    \/ BulkExitFile
    \/ BulkExitNoFile
    \/ BulkExitNonZero
    \/ BulkMoveRaises
    \/ BulkFinish
    \/ SingleStart
    \/ SingleMissingExe
    \/ SingleExitFile
    \/ SingleExitNoFile
    \/ SingleExitNonZero
    \/ SingleMoveRaises

SpecDownload == InitDownload /\ [][NextDownload]_vars

(***************************************************************************)
(* The translator tab, src/app.py:478-626: one action per script run       *)
(***************************************************************************)
\* what the URL field can hold: nothing, two URLs with an identifier and
\* one without
UrlFieldInputs ==
    { <<>>,
      UrlOf(<<[shape |-> "watch", id |-> <<"d","Q","w","4","w","9","W","g","X","c","Q">>]>>),
      UrlOf(<<[shape |-> "short", id |-> <<"a","b","c","v","t","t","d","e","f","g","h">>]>>),
      UrlOf(<<[shape |-> "playlist", id |-> <<"d","Q","w","4","w","9","W","g","X","c","Q">>]>>) }

\* what the text area of the manual method can hold
ManualInputs == { <<>>, <<" ", "\n">>, <<" ", "t", "x", "\n">> }

\* what fetch_english_transcript_ytdlp can return to line 540
FetchOutcomes == BodyResults \cup {Success(<<"y", "o">>, "ja")}

\* what translate_to_japanese can return to line 568
TranslateOutputs == { <<"J">>, <<"K">> }

\* what the user can type into the Japanese pane
JpEdits == { <<"E">> }

\* line 535 with the test left out
IdMissing_Never(vid) == FALSE

\* line 535: if not vid
IdMissing(vid) == vid = <<>>

\* a description of one script run
Run(kind, outcome, u, err, fetches, translations) ==
    [kind |-> kind, outcome |-> outcome, url |-> u, fetch_error |-> err,
     fetch_calls |-> fetches, translate_calls |-> translations]

\* lines 584-601 of the run that follows: the pane is shown when eng_text
\* is not empty, and jp_edit is set from jp_ta only if the key is missing
ShowPanes(eng, ta) ==
    /\ has_jp_edit' = (has_jp_edit \/ eng # <<>>)
    /\ jp_edit' = IF ~has_jp_edit /\ eng # <<>> THEN ta ELSE jp_edit

\* st.stop(), or an exception that ends the run: the rest of the script
\* does not run and there is no rerun
RunEnds == UNCHANGED <<has_jp_edit, jp_edit>>

SessionInit ==
    /\ input_method = "url" /\ eng_text = <<>> /\ jp_text = <<>> /\ jp_ta = <<>>
    /\ st_video_id = <<>> /\ has_jp_edit = FALSE /\ jp_edit = <<>>
    /\ last_run = NoRun

\* lines 498-503: the radio button is changed; no button is clicked
SelectMethod ==
    /\ \E m \in {"url", "manual"} : m # input_method /\ input_method' = m
    /\ last_run' = Run("select", "ok", <<>>, "", 0, 0)
    /\ ShowPanes(eng_text, jp_ta)
    /\ UNCHANGED <<eng_text, jp_text, jp_ta, st_video_id>>
    /\ UNCHANGED <<fileVars, fetchVars, parseVars, idVars, timeVars, translateVars, cacheVars,
                   downloadVars>>

\* lines 526-529 and the rerun
ClearClicked ==
    /\ eng_text' = <<>> /\ jp_text' = <<>> /\ jp_ta' = <<>> /\ st_video_id' = <<>>
    /\ last_run' = Run("clear", "ok", <<>>, "", 0, 0)
    /\ ShowPanes(<<>>, <<>>)
    /\ UNCHANGED input_method
    /\ UNCHANGED <<fileVars, fetchVars, parseVars, idVars, timeVars, translateVars, cacheVars,
                   downloadVars>>

\* lines 532-581 with the URL method, and the rerun of line 581
FetchClickedUrl ==
    /\ input_method = "url"
    /\ \E u \in UrlFieldInputs, r \in FetchOutcomes :
          LET vid == extract_video_id(u)
          IN  IF u = <<>>
              THEN \* lines 563-565
                   /\ last_run' = Run("fetch", "no_input", u, "", 0, 0)
                   /\ RunEnds
                   /\ UNCHANGED <<eng_text, jp_text, jp_ta, st_video_id>>
              ELSE IF IdMissing(vid)
              THEN \* lines 535-537
                   /\ last_run' = Run("fetch", "no_id", u, "", 0, 0)
                   /\ RunEnds
                   /\ UNCHANGED <<eng_text, jp_text, jp_ta, st_video_id>>
              ELSE IF r.error # ""
              THEN \* lines 542-545
                   /\ last_run' = Run("fetch", "fetch_error", u, r.error, 1, 0)
                   /\ RunEnds
                   /\ UNCHANGED <<eng_text, jp_text, jp_ta, st_video_id>>
              ELSE IF r.text = <<>>
              THEN \* lines 547-549
                   /\ last_run' = Run("fetch", "no_text", u, "", 1, 0)
                   /\ RunEnds
                   /\ UNCHANGED <<eng_text, jp_text, jp_ta, st_video_id>>
              ELSE \* line 551, then the translation of line 568
                   /\ st_video_id' = vid
                   /\ \/ \* translate_to_japanese raises
                         /\ last_run' = Run("fetch", "translate_raised", u, "", 1, 1)
                         /\ RunEnds
                         /\ UNCHANGED <<eng_text, jp_text, jp_ta>>
                      \/ \* lines 570-581
                         \E jp \in TranslateOutputs :
                            /\ eng_text' = r.text /\ jp_text' = jp /\ jp_ta' = jp
                            /\ last_run' = Run("fetch", "ok", u, "", 1, 1)
                            /\ ShowPanes(r.text, jp)
    /\ UNCHANGED input_method
    /\ UNCHANGED <<fileVars, fetchVars, parseVars, idVars, timeVars, translateVars, cacheVars,
                   downloadVars>>

\* lines 532-581 with the manual method, and the rerun of line 581
FetchClickedManual ==
    /\ input_method = "manual"
    /\ \E typed \in ManualInputs :
          IF typed = <<>> \/ Strip(typed) = <<>>
          THEN \* lines 563-565 and 560-562
               /\ last_run' = Run("translate", "no_input", <<>>, "", 0, 0)
               /\ RunEnds
               /\ UNCHANGED <<eng_text, jp_text, jp_ta, st_video_id>>
          ELSE \/ \* translate_to_japanese raises
                  /\ last_run' = Run("translate", "translate_raised", <<>>, "", 0, 1)
                  /\ RunEnds
                  /\ UNCHANGED <<eng_text, jp_text, jp_ta, st_video_id>>
               \/ \* lines 570-581
                  \E jp \in TranslateOutputs :
                     /\ eng_text' = Strip(typed) /\ jp_text' = jp /\ jp_ta' = jp
                     /\ st_video_id' = <<>>
                     /\ last_run' = Run("translate", "ok", <<>>, "", 0, 1)
                     /\ ShowPanes(Strip(typed), jp)
    /\ UNCHANGED input_method
    /\ UNCHANGED <<fileVars, fetchVars, parseVars, idVars, timeVars, translateVars, cacheVars,
                   downloadVars>>

\* lines 603-613: the user changes the Japanese pane; update_jp_text runs
\* and the script is run again
JpEdited ==
    /\ eng_text # <<>>
    /\ \E typed \in JpEdits :
          /\ jp_edit' = typed
          /\ jp_ta' = typed
    /\ has_jp_edit' = TRUE
    /\ last_run' = Run("edit", "ok", <<>>, "", 0, 0)
    /\ UNCHANGED <<input_method, eng_text, jp_text, st_video_id>>
    /\ UNCHANGED <<fileVars, fetchVars, parseVars, idVars, timeVars, translateVars, cacheVars,
                   downloadVars>>

IdleButSession ==
    FileIdle /\ FetchIdle /\ ParseIdle /\ IdIdle /\ TimeIdle /\ TranslateIdle /\ CacheIdle
    /\ DownloadIdle

InitSession == IdleButSession /\ SessionInit

NextSession ==
    \/ SelectMethod
    \/ ClearClicked
    \/ FetchClickedUrl
    \/ FetchClickedManual
    \/ JpEdited

SpecSession == InitSession /\ [][NextSession]_vars

(***************************************************************************)
(* The files of the single download (src/app.py:295-338, 956-1032).        *)
(*                                                                         *)
(* yt-dlp writes "<title>_..._(<id>).mp4" into a temporary directory; line *)
(* 987 moves it into the working directory under the name line 984 chose,  *)
(* lines 994-996 keep its path, bytes and name in the session, and a click *)
(* on the file download button (line 1024) calls cleanup_server_file.      *)
(* A path of the working directory is [name, V]: V = 1 is "<name>.mp4",    *)
(* V = n > 1 is "<name>_V<n>.mp4", the names line 304 and 307 format.      *)
(* The specification SpecFile runs the script once per click, over one     *)
(* session, and keeps the directory's content in `disk`.                   *)
(***************************************************************************)

\* the largest counter of line 304 the model lets a file name carry
MaxCounter == 3

\* the file names yt-dlp gives the videos that are downloaded (line 981)
Titles == {"a", "b"}

\* os.path.basename(temp_file) of line 981: "<title>.mp4"
BasePath(title) == [name |-> title, V |-> 1]

\* f"{name}_V{counter}{ext}" of lines 304 and 307
Versioned(name, counter) == [name |-> name, V |-> counter]

\* os.path.exists(path): the path is in the working directory
exists(path) == path \in disk

\* the while loop of lines 302-305: the first counter whose name is free
RECURSIVE FreeCounter(_, _)
FreeCounter(name, counter) ==
    IF exists(Versioned(name, counter)) THEN FreeCounter(name, counter + 1)
    ELSE counter

\* get_unique_filename (lines 295-307)
get_unique_filename(base_path) ==
    IF ~exists(base_path) THEN base_path
    ELSE Versioned(base_path.name, FreeCounter(base_path.name, 2))

\* f.read() of line 991: the bytes of the video that was downloaded
Bytes(title) == [video |-> title]

\* os.path.basename(final_path) of line 996; final_path has no directory
basename(path) == path

\* the working directory before the session: files of earlier sessions
FileInit ==
    /\ disk \in SUBSET {BasePath(t) : t \in Titles}
    /\ moved = {}
    /\ downloaded_file_path = None
    /\ downloaded_file_data = None
    /\ downloaded_file_name = None
    /\ file_run = "none"

\* lines 956-999: "ダウンロード開始" is clicked, yt-dlp exits with 0 and line
\* 976 finds its file; nothing before line 994 touches the session keys
StartClickedFile ==
    \E title \in Titles :
        LET final_path == get_unique_filename(BasePath(title)) IN
        /\ final_path.V <= MaxCounter
        /\ disk' = disk \cup {final_path}
        /\ moved' = moved \cup {final_path}
        /\ downloaded_file_path' = final_path
        /\ downloaded_file_data' = Bytes(title)
        /\ downloaded_file_name' = basename(final_path)
        /\ file_run' = "downloaded"
        /\ UNCHANGED <<fetchVars, parseVars, idVars, timeVars, translateVars,
                       cacheVars, downloadVars, sessionVars>>

\* lines 1000-1016: the click ends without a file (no *.mp4, a non-zero exit
\* or no yt-dlp); the working directory and the session keys stay
StartClickedNoFile ==
    /\ file_run' = "failed"
    /\ UNCHANGED <<disk, moved, downloaded_file_path, downloaded_file_data,
                   downloaded_file_name>>
    /\ UNCHANGED <<fetchVars, parseVars, idVars, timeVars, translateVars,
                   cacheVars, downloadVars, sessionVars>>

\* cleanup_server_file (lines 327-338); `removed` is whether os.remove of
\* line 331 removed the file or raised into the except of line 332
cleanup_server_file(removed) ==
    /\ disk' = IF /\ downloaded_file_path # None
                  /\ exists(downloaded_file_path)
                  /\ removed
               THEN disk \ {downloaded_file_path}
               ELSE disk
    /\ downloaded_file_path' = None
    /\ downloaded_file_data' = None
    /\ downloaded_file_name' = None

\* lines 1019-1032: the file download button is shown while
\* downloaded_file_data is not None; its click runs the on_click callback
FileButtonClicked(removed) ==
    /\ downloaded_file_data # None
    /\ cleanup_server_file(removed)
    /\ file_run' = IF removed THEN "cleaned" ELSE "remove_raised"
    /\ UNCHANGED moved
    /\ UNCHANGED <<fetchVars, parseVars, idVars, timeVars, translateVars,
                   cacheVars, downloadVars, sessionVars>>

\* the click when os.remove removes the file
FileClickedRemoved == FileButtonClicked(TRUE)

\* the click when os.remove raises (line 332 ignores it)
FileClickedRemoveRaises == FileButtonClicked(FALSE)

IdleButFile ==
    FetchIdle /\ ParseIdle /\ IdIdle /\ TimeIdle /\ TranslateIdle /\ CacheIdle
    /\ DownloadIdle /\ SessionIdle

InitFile == IdleButFile /\ FileInit

NextFile ==
    \/ StartClickedFile
    \/ StartClickedNoFile
    \/ FileClickedRemoved
    \/ FileClickedRemoveRaises

SpecFile == InitFile /\ [][NextFile]_vars


(***************************************************************************)
(* Claims about fetch_english_transcript_ytdlp (specification Spec)        *)
(***************************************************************************)

\* C1: whatever the upstream does (no metadata, no track, payload fetch
\* error, decode error, success), the returned result has exactly one of
\* the transcript text and the error message non-empty.
C1_ExactlyOneOfTextAndError ==
    pc = "done" => ((result.text # <<>>) <=> (result.error = ""))

C1_Witness ==
    /\ pc = "done" /\ decoder = "vtt"
    /\ result.text # <<>> /\ result.error = ""

\* C2: a result with non-empty text carries a non-empty language code, and
\* a result with empty text carries a non-empty failure reason.
C2_LanguageOrReason ==
    pc = "done" =>
        /\ result.text # <<>> => result.lang # ""
        /\ result.text = <<>> => result.error # ""

C2_Witness ==
    /\ pc = "done" /\ result.text # <<>> /\ result.lang = "ja"

\* C3: no failure inside the fetch (metadata extraction error, payload
\* download error, JSON decode error, malformed payload structure) leaves
\* the function as an exception: the call never ends raised, an exception
\* caught inside ends the call with an error result, and a call that has
\* not returned can take its next step.
C3_NeverRaises ==
    /\ pc # "raised"
    /\ exc # "none" => pc = "done" /\ result.text = <<>> /\ result.error # ""
    /\ pc # "done" => ENABLED Next

C3_Witness ==
    /\ pc = "done" /\ exc = "TypeError" /\ decoder = "json3"
    /\ result.error = "unexpected error"

\* the error message of a fatal metadata outcome
C4_FatalError(m) ==
    IF m = "unavailable" THEN "video unavailable" ELSE "age-restricted video"

\* C4: when the metadata request reports the video unavailable or
\* age-restricted, the call has returned the corresponding fatal error
\* after exactly one metadata request and without fetching any payload.
C4_FatalStopsImmediately ==
    meta \in {"unavailable", "age"} =>
        /\ pc = "done"
        /\ result = [text |-> <<>>, error |-> C4_FatalError(meta), lang |-> ""]
        /\ nExtractInfo = 1
        /\ nUrlOpen = 0
        /\ ~sel.found

C4_Witness ==
    /\ pc = "done" /\ meta = "unavailable" /\ exc = "DownloadError"
    /\ result.error = "video unavailable" /\ nExtractInfo = 1

\* some track of the list has an accepted format
C_HasAccepted(tracks) ==
    \E k \in 1..Len(tracks) : InSeq(tracks[k].ext, AcceptedExts)

\* the languages of a captions map that are in a code list and have a track
\* in an accepted format
C_Usable(captions, codes) ==
    {l \in DOMAIN captions : InSeq(l, codes) /\ C_HasAccepted(captions[l])}

\* the selection has been made and the captions maps are still at hand
C_Selected == pc \in {"urlopen", "done"} /\ info.has

\* C5: for a video with manually authored captions in a language of the
\* secondary list, in an accepted format, and no English captions of any
\* kind, the fetcher selects a track in a secondary-list language that has
\* one (it does not report that there are no subtitles).
C5_ManualSecondaryFallback ==
    ( /\ C_Selected
      /\ C_Usable(info.subtitles, priority_langs) # {}
      /\ \A l \in DOMAIN info.subtitles \cup DOMAIN info.automatic_captions :
            ~InSeq(l, english_codes) )
    => /\ sel.found
       /\ sel.found_lang \in C_Usable(info.subtitles, priority_langs)
                             \cup C_Usable(info.automatic_captions, priority_langs)

\* C6 as stated: a manually authored track is selected only if no automatic
\* track in a preference-list language (English variants or the secondary
\* list) with an accepted format exists.
C6_ManualOnlyIfNoAutomatic ==
    (C_Selected /\ sel.found /\ sel.kind = "manual")
    => /\ C_Usable(info.automatic_captions, english_codes) = {}
       /\ C_Usable(info.automatic_captions, priority_langs) = {}

\* C6 amended: a manually authored track is selected only if no automatic
\* track in an English variant with an accepted format exists; a track in a
\* language of the secondary list is selected only if no English track,
\* automatic or manual, with an accepted format exists.
C6_ManualOnlyIfNoAutomaticEnglish ==
    /\ (C_Selected /\ sel.found /\ sel.kind = "manual")
       => C_Usable(info.automatic_captions, english_codes) = {}
    /\ (C_Selected /\ sel.found /\ ~InSeq(sel.found_lang, english_codes))
       => /\ C_Usable(info.automatic_captions, english_codes) = {}
          /\ C_Usable(info.subtitles, english_codes) = {}

C6_Witness ==
    /\ C_Selected /\ sel.found /\ sel.kind = "manual"
    /\ C_Usable(info.automatic_captions, priority_langs) # {}

\* the accepted format of highest priority among the tracks
C7_BestExt(tracks) ==
    LET present == {i \in 1..Len(AcceptedExts) :
                        \E k \in 1..Len(tracks) : tracks[k].ext = AcceptedExts[i]}
    IN AcceptedExts[CHOOSE i \in present : \A j \in present : i <= j]

C7_SelectedList ==
    IF sel.kind = "auto" THEN info.automatic_captions[sel.found_lang]
    ELSE info.subtitles[sel.found_lang]

\* C7: within the selected language the track is chosen by the fixed format
\* priority list, json3 first: the selected track has the highest-priority
\* accepted format present in that language's list, whatever the order in
\* which the upstream lists the tracks.
C7_FormatPriority ==
    (C_Selected /\ sel.found) => sel.ext = C7_BestExt(C7_SelectedList)

\* the decoder the declared format names
C8_DecoderOf(ext) ==
    IF ext = "json3" THEN "json3" ELSE IF ext = "vtt" THEN "vtt" ELSE "xml"

\* C8: the decoder applied to the payload is determined by the declared
\* format (ext) of the selected track, whatever the text of its URL; a
\* track declared vtt, srv1/2/3 or ttml is never decoded as timed JSON.
C8_DecoderByDeclaredFormat ==
    decoder # "none" => decoder = C8_DecoderOf(sel.ext)

(***************************************************************************)
(* Claims about parse_subtitle_json (specification SpecParse)              *)
(***************************************************************************)
\* the text fragments of one event: the non-empty text fields of its
\* segments when it carries segments, else its own non-empty text field
RECURSIVE C9_SegFragments(_)
C9_SegFragments(segs) ==
    IF segs = <<>> THEN <<>>
    ELSE (IF Head(segs).hasUtf8 /\ Head(segs).utf8 # <<>>
          THEN <<Head(segs).utf8>> ELSE <<>>) \o C9_SegFragments(Tail(segs))

C9_Fragments(entry) ==
    IF entry.hasSegs THEN C9_SegFragments(entry.segs)
    ELSE IF entry.hasText /\ entry.text # <<>> THEN <<entry.text>>
    ELSE <<>>

RECURSIVE C9_AllFragments(_)
C9_AllFragments(data) ==
    IF data = <<>> THEN <<>>
    ELSE C9_Fragments(Head(data)) \o C9_AllFragments(Tail(data))

\* C9 as stated: the result is the events' text fragments, in event order,
\* joined by single spaces.
C9_FragmentsJoined ==
    ppc = "done" => parsed = Join(<<" ">>, C9_AllFragments(subtitle_data))

\* an event's contribution: its fragments joined by single spaces, trimmed
C9_Contribution(entry) == Strip(Join(<<" ">>, C9_Fragments(entry)))

RECURSIVE C9_Contributions(_)
C9_Contributions(data) ==
    IF data = <<>> THEN <<>>
    ELSE (IF C9_Contribution(Head(data)) # <<>>
          THEN <<C9_Contribution(Head(data))>> ELSE <<>>)
         \o C9_Contributions(Tail(data))

\* C9 amended: the result is the events' contributions, in event order,
\* joined by single spaces, where an event's contribution is its fragments
\* joined by single spaces with leading and trailing whitespace removed,
\* and an event whose contribution is then empty contributes nothing.
C9_TrimmedContributionsJoined ==
    ppc = "done" => parsed = Join(<<" ">>, C9_Contributions(subtitle_data))

C9_Witness ==
    /\ ppc = "done"
    /\ Len(subtitle_data) = 2
    /\ subtitle_data[1].hasSegs /\ subtitle_data[1].segs = <<[hasUtf8 |-> TRUE, utf8 |-> <<"a">>]>>
    /\ subtitle_data[2].hasSegs /\ subtitle_data[2].segs = <<[hasUtf8 |-> TRUE, utf8 |-> <<" ", "a">>]>>
    /\ parsed = <<"a", " ", "a">>

(***************************************************************************)
(* Claims about extract_video_id (specification SpecVideoId)               *)
(***************************************************************************)
\* the position of a shape's pattern in the fixed order; 0: unsupported
C10_Rank(shape) ==
    CASE shape = "watch" -> 1 [] shape = "short" -> 2
      [] shape = "embed" -> 3 [] shape = "shorts" -> 4 [] OTHER -> 0

\* the parts that are a supported shape with an 11-character identifier
C10_Supported(parts) ==
    {i \in 1..Len(parts) : C10_Rank(parts[i].shape) # 0 /\ Len(parts[i].id) = 11}

C10_Expected(parts) ==
    LET S == C10_Supported(parts)
    IN IF S = {} THEN <<>>
       ELSE parts[CHOOSE i \in S : \A j \in S :
                     \/ C10_Rank(parts[i].shape) < C10_Rank(parts[j].shape)
                     \/ /\ C10_Rank(parts[i].shape) = C10_Rank(parts[j].shape)
                        /\ i <= j].id

\* C10: a URL of a supported shape yields exactly its 11-character
\* identifier; a string with no supported shape yields the empty string;
\* when several shapes occur, the first pattern in the order v=, youtu.be/,
\* embed/, shorts/ that matches decides.
C10_VideoIdByShape ==
    epc = "done" => vid_out = C10_Expected(url_parts)

C10_Witness ==
    /\ epc = "done"
    /\ Len(url_parts) = 2
    /\ url_parts[1].shape = "shorts" /\ url_parts[2].shape = "watch"
    /\ Len(url_parts[1].id) = 11 /\ Len(url_parts[2].id) = 11
    /\ url_parts[1].id # url_parts[2].id
    /\ vid_out = url_parts[2].id

(***************************************************************************)
(* Claims about the time formats (specification SpecTime)                  *)
(***************************************************************************)
\* the string with every digit replaced by "d" and every other character
\* but the colon by "?"
C11_Shape(s) ==
    [i \in 1..Len(s) |-> IF s[i] \in Digits THEN "d"
                         ELSE IF s[i] = ":" THEN ":" ELSE "?"]

C11_ColonShapes ==
    { <<"d", ":", "d", "d">>, <<"d", "d", ":", "d", "d">>,
      <<"d", ":", "d", "d", ":", "d", "d">>,
      <<"d", "d", ":", "d", "d", ":", "d", "d">> }

C11_Four == <<"d", "d", "d", "d">>
C11_Six  == <<"d", "d", "d", "d", "d", "d">>

RECURSIVE C12_TextLen(_)
C12_TextLen(text) ==
    IF text = <<>> THEN 0 ELSE Head(text).n + C12_TextLen(Tail(text))

\* the chunks of the argument, each of at most Width characters
C12_Chunks == Wrap(tr_text)

\* the trimmed replies received so far, joined by a blank line
C12_Joined ==
    Join(<<"\n", "\n">>, [i \in 1..Len(tr_replies) |-> Strip(tr_replies[i])])

\* C12: for a text longer than the chunk width, translate_to_japanese
\* issues exactly one generation call per chunk, one after the other in
\* chunk order, and returns the trimmed replies joined in that order by a
\* blank line; for the empty text it issues no call and returns "".
C12_OneCallPerChunk ==
    /\ (trpc = "done" /\ tr_text = <<>>) => tr_requests = <<>> /\ tr_out = <<>>
    /\ (trpc \in {"loop", "raised", "done"} /\ C12_TextLen(tr_text) > Width) =>
          /\ Len(tr_requests) <= Len(C12_Chunks)
          /\ \A i \in 1..Len(tr_requests) :
                /\ tr_requests[i].chunk = C12_Chunks[i]
                /\ LineLen(C12_Chunks[i]) \in 1..Width
          /\ trpc # "raised" => Len(tr_replies) = Len(tr_requests)
    /\ (trpc = "done" /\ C12_TextLen(tr_text) > Width) =>
          /\ Len(tr_requests) = Len(C12_Chunks)
          /\ tr_out = C12_Joined

C12_Witness ==
    /\ trpc = "done"
    /\ C12_TextLen(tr_text) > Width
    /\ Len(tr_requests) = 3
    /\ tr_replies[1] = <<" ", "K", "\n">>
    /\ tr_replies[2] = <<"J">>
    /\ tr_out = <<"K", "\n", "\n", "J", "\n", "\n", "J">>

(***************************************************************************)
(* Claims about the results cache (specification SpecCache)                *)
(***************************************************************************)
\* C13: the cache is written only by a successful fetch: after a fetch of
\* v that returns an error the cache holds no entry for v (so the next
\* fetch of v contacts the upstream again), and a fetch of v answered from
\* the cache returns a successful result.
C13_OnlySuccessCached ==
    /\ \A v \in VideoIds : cache[v].has => cache[v].result.error = ""
    /\ (cached_call.made /\ ~cached_call.ran_body) => cached_call.result.error = ""

(***************************************************************************)
(* Claims about the download tab (specification SpecDownload)              *)
(***************************************************************************)
\* C14: the temporary directory made for a subprocess download, on the
\* single and on the bulk path, has been removed when that download
\* operation finishes, whichever way it ends: success, no output file,
\* non-zero exit, missing executable, any other exception.
C14_TempDirRemoved ==
    \A k \in 1..Len(dl_results) : dl_results[k].entry \notin temp_dirs

\* C16: the bulk download handles its URL list strictly in list order
\* with at most one subprocess running: the subprocess of an entry starts
\* only after the one of the entry before has exited and its result is
\* recorded, and a failed entry does not keep the later ones from being
\* attempted.
C16_BulkSequential ==
    download_mode = "bulk" =>
        /\ Cardinality(running) <= 1
        /\ \A k \in 1..Len(dl_results) : dl_results[k].entry = k
        /\ \A k \in 1..Len(started) :
              /\ started[k].entry \in 1..Len(bulk_urls)
              /\ started[k].url = bulk_urls[started[k].entry]
              /\ k > 1 => started[k - 1].entry < started[k].entry
              /\ Len(dl_results) >= started[k].entry - 1
        /\ \A i \in running :
              /\ Len(dl_results) = i - 1
              /\ started[Len(started)].entry = i
        /\ dpc = "done" => Len(dl_results) = Len(bulk_urls)

C16_Witness ==
    /\ download_mode = "bulk" /\ dpc = "done"
    /\ Len(bulk_urls) = 2 /\ Len(started) = 2
    /\ ~dl_results[1].success /\ dl_results[2].success

\* a time string the claims call valid, and its colon form
C17_Valid(s) == C11_Shape(s) \in C11_ColonShapes \cup {C11_Four, C11_Six}

C17_Colon(s) ==
    IF C11_Shape(s) = C11_Four THEN <<s[1], s[2], ":", s[3], s[4]>>
    ELSE IF C11_Shape(s) = C11_Six
    THEN <<s[1], s[2], ":", s[3], s[4], ":", s[5], s[6]>>
    ELSE s

\* both times supplied and both valid
C17_Good(p) ==
    p.start # <<>> /\ p.end # <<>> /\ C17_Valid(p.start) /\ C17_Valid(p.end)

C17_Value(p) == <<"*">> \o C17_Colon(p.start) \o <<"-">> \o C17_Colon(p.end)

\* the field pairs that were filled in for the URL of command c
C17_Supplied(c) ==
    IF download_mode = "single" \/ bulk_time_mode = "global"
    THEN {time_inputs[1]}
    ELSE IF bulk_time_mode = "each"
    THEN {time_inputs[k] : k \in {j \in 1..Len(bulk_urls) : bulk_urls[j] = c.url}}
    ELSE {}

\* C17: on the single and on the bulk path a command has the trim flags
\* exactly if a start and an end time were supplied and both are valid
\* time strings; the value is then "*<start>-<end>" with both times in
\* colon form, so no subprocess starts with a trim value made from a
\* string that was not validated and normalized.
C17_TrimOnlyValidated ==
    /\ \A k \in 1..Len(started) :
          /\ started[k].trim.has <=> \E p \in C17_Supplied(started[k]) : C17_Good(p)
          /\ started[k].trim.has =>
                \E p \in C17_Supplied(started[k]) :
                    C17_Good(p) /\ started[k].trim.value = C17_Value(p)
    /\ (download_mode = "single" /\ started # <<>>) =>
          \/ C17_Good(time_inputs[1])
          \/ time_inputs[1] = [start |-> <<>>, end |-> <<>>]

C17_Witness ==
    /\ download_mode = "bulk" /\ bulk_time_mode = "each"
    /\ Len(started) = 2
    /\ ~started[1].trim.has
    /\ started[2].trim.value =
          <<"*", "1", ":", "0", "0", "-", "0", "1", ":", "3", "0", ":", "0", "0">>

\* C18: in the per-URL time mode every entry of the URL list is
\* downloaded with the time range typed into the fields of that entry,
\* and without trim flags when the fields of that entry are blank, also
\* when the same URL occurs more than once in the list.
C18_RangeOfItsEntry ==
    (download_mode = "bulk" /\ bulk_time_mode = "each") =>
        \A k \in 1..Len(started) :
            LET p == time_inputs[started[k].entry]
            IN  /\ C17_Good(p) =>
                      /\ started[k].trim.has
                      /\ started[k].trim.value = C17_Value(p)
                /\ p = [start |-> <<>>, end |-> <<>>] => ~started[k].trim.has

(***************************************************************************)
(* Claims about the translator tab (specification SpecSession)             *)
(***************************************************************************)
\* C15: if the translation call fails during Fetch & Translate, the run is
\* abandoned with nothing committed: eng_text, jp_text, jp_ta and video_id
\* have the values they had before, whatever the session state was.
C15_NothingCommittedOnTranslateFailure ==
    [][last_run'.outcome = "translate_raised" =>
          UNCHANGED <<eng_text, jp_text, jp_ta, st_video_id>>]_vars

\* C19: whenever a Fetch & Translate has just completed successfully,
\* after any sequence of fetches, edits of the Japanese pane and clears,
\* the value the editable pane is initialised from (jp_edit) is the
\* translation just produced (jp_ta, jp_text).
C19_PaneShowsNewTranslation ==
    (last_run.kind \in {"fetch", "translate"} /\ last_run.outcome = "ok") =>
        /\ has_jp_edit
        /\ jp_edit = jp_ta
        /\ jp_ta = jp_text

\* C20: when the identifier cannot be extracted from the URL or the
\* caption fetch returns an error, Fetch & Translate stops: no translation
\* call, at most the one fetch attempt, and eng_text, jp_text, jp_ta and
\* video_id keep their values.
C20_FetchErrorChangesNothing ==
    [][(/\ last_run'.kind = "fetch"
        /\ last_run'.url # <<>>
        /\ \/ extract_video_id(last_run'.url) = <<>>
           \/ last_run'.fetch_error # "") =>
          /\ UNCHANGED <<eng_text, jp_text, jp_ta, st_video_id>>
          /\ last_run'.translate_calls = 0
          /\ last_run'.fetch_calls <= 1
          /\ extract_video_id(last_run'.url) = <<>> => last_run'.fetch_calls = 0]_vars

C20_Witness ==
    /\ last_run.kind = "fetch"
    /\ last_run.fetch_error = "no subtitles found"
    /\ eng_text = <<"h", "i">>
    /\ jp_ta = <<"E">>
    /\ st_video_id = <<"d","Q","w","4","w","9","W","g","X","c","Q">>

\* the three session keys of the downloaded file are all None or all set
C21_AllOrNone ==
    \/ /\ downloaded_file_path = None
       /\ downloaded_file_data = None
       /\ downloaded_file_name = None
    \/ /\ downloaded_file_path # None
       /\ downloaded_file_data # None
       /\ downloaded_file_name # None

\* the files line 987 moved into the working directory that are still there
\* without being the file of downloaded_file_path
C21_Orphans == {f \in moved : exists(f) /\ f # downloaded_file_path}

\* C21: after any sequence of single downloads and clicks on the file
\* download button, every file a single download moved into the working
\* directory is the file of downloaded_file_path or has been deleted, and
\* downloaded_file_path, downloaded_file_data and downloaded_file_name are
\* all None or all set
C21_NoFileWithoutReference == C21_Orphans = {} /\ C21_AllOrNone
====
